---- MODULE Spec2Model ----
(***************************************************************************)
(* Model of ferrum_scrape's Python layer: WebExtractor / AsyncWebExtractor *)
(* (extractor.py, async_extractor.py) and batch_extract.                   *)
(*                                                                         *)
(* The native handle (_PyWebExtractor) is observed through the calls the   *)
(* Python layer makes on it: `native` holds, per native method, the last   *)
(* argument it received.  The robots cache lives in the native extension,  *)
(* which is not part of the Python sources; its tiers are modelled from    *)
(* the written specification (section 4.3).                                *)
(***************************************************************************)
EXTENDS Integers, Sequences, FiniteSets, TLC

VARIABLES
    \* ---- one extraction request (WebExtractor or AsyncWebExtractor)
    kind,          \* "sync" | "async": which class the request is
    ext,           \* the Python object: _activities_set, the native handle, warnings issued
    nExtract,      \* number of extract_* calls made on the request since construction
    lastCall,      \* the last public call made on the request, with its arguments
    callsLeft,     \* public calls the scenario may still make
    runPc,         \* "idle" | "submitted" | "running": position of an offloaded run
    invokedCfg,    \* native configuration at the instant run was invoked
    usedCfg,       \* native configuration the Engine's run actually read
    runCalls,      \* number of times the Engine's run was invoked
    outcome,       \* outcome of the last run: "none" | "ConfigurationError" | "ok" | "EngineError"
    \* ---- robots cache of the request and the scoped block it is used in
    robots,        \* [mode, ttl, local, shared]
    now,           \* clock, in TTL units
    fetches,       \* live robots.txt fetches made so far
    lastSource,    \* where the last check_robots_allowed was resolved from
    scope,         \* "none" | "inside" | "exited": the `with` block
    excPending,    \* an exception was raised inside the block and is unwinding
    exitClears,    \* clear_robots_cache calls made by __exit__
    propagated,    \* the exception raised inside the block left the block
    \* ---- batch_extract
    opts,          \* the activity options of the batch call
    maxc,          \* max_concurrent
    fate,          \* per target: what its construction / Engine call will do
    permits,       \* value of the asyncio.Semaphore
    tpc,           \* per task: "waiting" | "submitted" | "engineDone" | "done"
    text,          \* per task: the AsyncWebExtractor it built
    engineRuns,    \* per task: Engine run invocations
    engineOut,     \* per task: what the Engine call produced
    slot,          \* per task: its slot in gather's result list
    completed,     \* task ids in the order the tasks completed
    batchPc,       \* "gathering" | "returned" | "raised"
    returned       \* the list batch_extract returned

reqVars    == <<kind, ext, nExtract, lastCall, callsLeft, runPc, invokedCfg, usedCfg, runCalls, outcome>>
robotsVars == <<robots, now, fetches, lastSource, scope, excPending, exitClears, propagated>>
batchVars  == <<opts, maxc, fate, permits, tpc, text, engineRuns, engineOut, slot, completed, batchPc, returned>>
vars       == <<reqVars, robotsVars, batchVars>>

(***************************************************************************)
(* Bounds                                                                  *)
(***************************************************************************)
MaxCalls      == 3     \* public calls made on a single request
MaxScopeCalls == 5     \* public calls made in the scoped-robots scenario
MaxTime       == 3     \* clock ticks
MaxTtl        == 2     \* largest robots TTL, in clock ticks
MaxTargets    == 3     \* urls handed to batch_extract
MaxConcurrent == 2     \* largest max_concurrent tried

(***************************************************************************)
(* Values                                                                  *)
(***************************************************************************)
ALL == <<"all">>

\* Optional[List[str]]: None, or a list
None      == [given |-> FALSE, fields |-> <<>>]
Given(f)  == [given |-> TRUE, fields |-> f]
FieldInputs == {None, Given(ALL), Given(<<"title">>), Given(<<>>)}

MetaCalls == {"extract_socials", "extract_video", "extract_product", "extract_article"}

\* timeouts are floats; they are carried in tenths of a second
TimeoutInputs == {-15, 5, 25}
UserAgents    == {"bot/1.0"}
HeaderNames   == {"Accept"}
HeaderValues  == {"a", "b"}
HeaderDicts   == {<<>>, <<<<"Accept", "a">>>>}     \* set_headers: {} or {"Accept": "a"}

Off     == [on |-> FALSE, arg |-> <<>>]
On(a)   == [on |-> TRUE, arg |-> a]

\* _PyWebExtractor(url, html): no method has been called on the handle yet
NewNative ==
    [extract_text |-> Off, extract_links |-> Off,
     extract_socials |-> Off, extract_video |-> Off,
     extract_product |-> Off, extract_article |-> Off,
     set_timeout |-> Off, set_user_agent |-> Off, set_random_user_agent |-> Off,
     add_header |-> Off, set_headers |-> Off]

\* __init__: self._extractor = _PyWebExtractor(url, html); self._activities_set = False
NewExtractor == [activities_set |-> FALSE, native |-> NewNative, warned |-> 0]

(***************************************************************************)
(* The configuration surface, as pure functions of the Python object.      *)
(* WebExtractor and AsyncWebExtractor carry the same code for these.       *)
(***************************************************************************)
\* the call self._extractor.<method>(arg)
Native(e, method, arg) == [e EXCEPT !.native[method] = On(<<arg>>)]

\* self._activities_set = True
Activate(e) == [e EXCEPT !.activities_set = TRUE]

extract_text(e, language_detection) ==
    Activate(Native(e, "extract_text", language_detection))

link_fields_no_both(internal, external, all) ==
    IF all THEN <<"all">>
    ELSE IF internal THEN <<"internal">>
    ELSE IF external THEN <<"external">>
    ELSE <<"all">>

\* the if/elif chain of extract_links
link_fields(internal, external, all) ==
    IF all \/ (internal /\ external) THEN <<"all">>
    ELSE IF internal THEN <<"internal">>
    ELSE IF external THEN <<"external">>
    ELSE <<"all">>

extract_links(e, internal, external, all) ==
    Activate(Native(e, "extract_links", link_fields(internal, external, all)))

meta_selector_empty_is_none(fields) ==
    IF (~fields.given) \/ fields.fields = <<>>
    THEN [warn |-> 1, fields |-> ALL]
    ELSE [warn |-> 0, fields |-> fields.fields]

\* `if fields is None: warnings.warn(...); fields = ["all"]`
meta_selector(fields) ==
    IF ~fields.given
    THEN [warn |-> 1, fields |-> ALL]
    ELSE [warn |-> 0, fields |-> fields.fields]

\* extract_socials / extract_video / extract_product / extract_article
extract_meta(e, call, fields) ==
    LET s == meta_selector(fields)
        w == [e EXCEPT !.warned = @ + s.warn]
    IN  Activate(Native(w, call, s.fields))

\* int(timeout_secs) truncates toward zero; t is in tenths of a second
int(t) == IF t >= 0 THEN t \div 10 ELSE -((-t) \div 10)

set_timeout(e, timeout_secs)      == Native(e, "set_timeout", int(timeout_secs))
set_user_agent(e, user_agent)     == Native(e, "set_user_agent", user_agent)
set_random_user_agent(e, enabled) == Native(e, "set_random_user_agent", enabled)
add_header(e, name, value)        == Native(e, "add_header", <<name, value>>)
set_headers_resets(e, headers) ==
    [Native(e, "set_headers", headers) EXCEPT !.activities_set = FALSE]

set_headers(e, headers)           == Native(e, "set_headers", headers)

(***************************************************************************)
(* AsyncWebExtractor carries its own copy of the configuration surface     *)
(* (async_extractor.py); it is transcribed separately.                     *)
(***************************************************************************)
async_extract_text(e, language_detection) ==
    Activate(Native(e, "extract_text", language_detection))

async_link_fields_internal_first(internal, external, all) ==
    IF all THEN <<"all">>
    ELSE IF internal THEN <<"internal">>
    ELSE IF external THEN <<"external">>
    ELSE <<"all">>

\* the if/elif chain of AsyncWebExtractor.extract_links
async_link_fields(internal, external, all) ==
    IF all \/ (internal /\ external) THEN <<"all">>
    ELSE IF internal THEN <<"internal">>
    ELSE IF external THEN <<"external">>
    ELSE <<"all">>

async_extract_links(e, internal, external, all) ==
    Activate(Native(e, "extract_links", async_link_fields(internal, external, all)))

async_meta_selector(fields) ==
    IF ~fields.given
    THEN [warn |-> 1, fields |-> ALL]
    ELSE [warn |-> 0, fields |-> fields.fields]

async_extract_meta(e, call, fields) ==
    LET s == async_meta_selector(fields)
        w == [e EXCEPT !.warned = @ + s.warn]
    IN  Activate(Native(w, call, s.fields))

async_set_timeout(e, timeout_secs)      == Native(e, "set_timeout", int(timeout_secs))
async_set_user_agent(e, user_agent)     == Native(e, "set_user_agent", user_agent)
async_set_random_user_agent(e, enabled) == Native(e, "set_random_user_agent", enabled)
async_add_header(e, name, value)        == Native(e, "add_header", <<name, value>>)
async_set_headers(e, headers)           == Native(e, "set_headers", headers)

async_validate_skipped(e) == TRUE

\* AsyncWebExtractor.run: `if not self._activities_set: raise RuntimeError(...)`
async_validate(e) == e.activities_set

validate_skipped(e) == TRUE

\* run: `if not self._activities_set: raise RuntimeError(...)`
validate(e) == e.activities_set

(***************************************************************************)
(* The robots cache of the native extension (specification, section 4.3).  *)
(* robots = [mode, ttl, local, shared]:                                    *)
(*   mode   "disabled" | "local" | "shared"                                *)
(*   ttl    TTL stamped on the next shared-tier write                      *)
(*   local  "empty" | "fetched" | "manual"    (no TTL)                     *)
(*   shared [present, at, ttl]                 (entry of the domain)       *)
(***************************************************************************)
TtlInputs  == 1..MaxTtl
DefaultTtl == MaxTtl          \* stands for the 1800 s default

NoEntry      == [present |-> FALSE, at |-> 0, ttl |-> 0]
Entry(t, l)  == [present |-> TRUE, at |-> t, ttl |-> l]

NewRobots == [mode |-> "disabled", ttl |-> DefaultTtl, local |-> "empty", shared |-> NoEntry]

\* a shared entry older than its TTL is treated as absent
native_shared_live_never_expires(r, t) == r.mode = "shared" /\ r.shared.present

native_shared_live(r, t) ==
    r.mode = "shared" /\ r.shared.present /\ t - r.shared.at < r.shared.ttl

native_enable_robots_check(r) ==
    IF r.mode = "disabled" THEN [r EXCEPT !.mode = "local", !.local = "empty"] ELSE r

native_enable_robots_check_with_redis(r) ==
    IF r.mode = "disabled"
    THEN [r EXCEPT !.mode = "shared", !.local = "empty"]
    ELSE [r EXCEPT !.mode = "shared"]

native_set_robots_redis_ttl(r, ttl_secs) == [r EXCEPT !.ttl = ttl_secs]

\* manual content seeds the local tier; toShared: it is also written to the shared tier
native_set_robots_txt(r, t, toShared) ==
    [r EXCEPT !.local = "manual",
              !.shared = IF toShared /\ r.mode = "shared" THEN Entry(t, r.ttl) ELSE @]

native_clear_robots_cache(r) == [r EXCEPT !.local = "empty"]

native_remove_robots_from_redis(r) == [r EXCEPT !.shared = NoEntry]

\* local -> shared (if not expired) -> live fetch -> populate both tiers.
\* fetchOk: the live fetch, if one is made, obtains rules (otherwise the call fails
\* open); readThrough: a shared hit also fills the local tier.  Result: the cache
\* afterwards, the tier that answered, whether an expired shared entry was passed
\* over, and the number of live fetches made.
native_check_robots_allowed(r, t, fetchOk, readThrough) ==
    LET stale == r.mode = "shared" /\ r.shared.present /\ ~native_shared_live(r, t) IN
    IF r.local # "empty"
    THEN [robots |-> r, source |-> "local", expired |-> FALSE, fetched |-> 0]
    ELSE IF native_shared_live(r, t)
    THEN [robots |-> IF readThrough THEN [r EXCEPT !.local = "fetched"] ELSE r,
          source |-> "shared", expired |-> FALSE, fetched |-> 0]
    ELSE IF fetchOk
    THEN [robots |-> [r EXCEPT !.local = IF r.mode = "disabled" THEN @ ELSE "fetched",
                               !.shared = IF r.mode = "shared" THEN Entry(t, r.ttl) ELSE @],
          source |-> "fetch", expired |-> stale, fetched |-> 1]
    ELSE [robots |-> r, source |-> "fetchFailed", expired |-> stale, fetched |-> 1]

context_exit_skips_on_error(r, raised) ==
    IF raised
    THEN [robots |-> r, clears |-> 0, suppress |-> FALSE]
    ELSE [robots |-> native_clear_robots_cache(r), clears |-> 1, suppress |-> FALSE]

\* __exit__: self.clear_robots_cache(); return False
context_exit(r, raised) ==
    [robots |-> native_clear_robots_cache(r), clears |-> 1, suppress |-> FALSE]

(***************************************************************************)
(* Initial states                                                          *)
(***************************************************************************)
InitRequestVars(budget) ==
    /\ ext = NewExtractor
    /\ nExtract = 0
    /\ lastCall = [op |-> "__init__", arg |-> <<>>]
    /\ callsLeft = budget
    /\ runPc = "idle"
    /\ invokedCfg = NewNative
    /\ usedCfg = NewNative
    /\ runCalls = 0
    /\ outcome = "none"

InitRobotsVars ==
    /\ robots = NewRobots
    /\ now = 0
    /\ fetches = 0
    /\ lastSource = [tier |-> "none", expired |-> FALSE]
    /\ scope = "none"
    /\ excPending = FALSE
    /\ exitClears = 0
    /\ propagated = FALSE

\* no batch call is in progress
NoBatch ==
    /\ opts = <<>>
    /\ maxc = 0
    /\ fate = <<>>
    /\ permits = 0
    /\ tpc = <<>>
    /\ text = <<>>
    /\ engineRuns = <<>>
    /\ engineOut = <<>>
    /\ slot = <<>>
    /\ completed = <<>>
    /\ batchPc = "none"
    /\ returned = <<>>

(***************************************************************************)
(* Public calls on one request                                             *)
(***************************************************************************)
runVars   == <<runPc, invokedCfg, usedCfg, runCalls, outcome>>
cacheVars == <<robots, now, fetches, lastSource>>
scopeVars == <<scope, excPending, exitClears, propagated>>

\* The caller can make a call: the thread is not blocked inside a synchronous run,
\* and no exception is unwinding the scoped block.
CanCall ==
    /\ kind = "async" \/ runPc = "idle"
    /\ ~(scope = "inside" /\ excPending)

Call(op, arg) ==
    /\ CanCall
    /\ callsLeft > 0
    /\ callsLeft' = callsLeft - 1
    /\ lastCall' = [op |-> op, arg |-> arg]

ExtractText ==
    \E language_detection \in BOOLEAN :
        /\ Call("extract_text", <<language_detection>>)
        /\ ext' = IF kind = "async" THEN async_extract_text(ext, language_detection)
                  ELSE extract_text(ext, language_detection)
        /\ nExtract' = nExtract + 1
        /\ UNCHANGED <<kind, runVars, robotsVars, batchVars>>

ExtractLinks ==
    \E internal \in BOOLEAN, external \in BOOLEAN, all \in BOOLEAN :
        /\ Call("extract_links", <<internal, external, all>>)
        /\ ext' = IF kind = "async" THEN async_extract_links(ext, internal, external, all)
                  ELSE extract_links(ext, internal, external, all)
        /\ nExtract' = nExtract + 1
        /\ UNCHANGED <<kind, runVars, robotsVars, batchVars>>

\* extract_socials, extract_video, extract_product, extract_article
ExtractMeta ==
    \E call \in MetaCalls, fields \in FieldInputs :
        /\ Call(call, fields)
        /\ ext' = IF kind = "async" THEN async_extract_meta(ext, call, fields)
                  ELSE extract_meta(ext, call, fields)
        /\ nExtract' = nExtract + 1
        /\ UNCHANGED <<kind, runVars, robotsVars, batchVars>>

SetTimeout ==
    \E timeout_secs \in TimeoutInputs :
        /\ Call("set_timeout", <<timeout_secs>>)
        /\ ext' = IF kind = "async" THEN async_set_timeout(ext, timeout_secs)
                  ELSE set_timeout(ext, timeout_secs)
        /\ UNCHANGED <<kind, nExtract, runVars, robotsVars, batchVars>>

SetUserAgent ==
    \E user_agent \in UserAgents :
        /\ Call("set_user_agent", <<user_agent>>)
        /\ ext' = IF kind = "async" THEN async_set_user_agent(ext, user_agent)
                  ELSE set_user_agent(ext, user_agent)
        /\ UNCHANGED <<kind, nExtract, runVars, robotsVars, batchVars>>

SetRandomUserAgent ==
    \E enabled \in BOOLEAN :
        /\ Call("set_random_user_agent", <<enabled>>)
        /\ ext' = IF kind = "async" THEN async_set_random_user_agent(ext, enabled)
                  ELSE set_random_user_agent(ext, enabled)
        /\ UNCHANGED <<kind, nExtract, runVars, robotsVars, batchVars>>

AddHeader ==
    \E name \in HeaderNames, value \in HeaderValues :
        /\ Call("add_header", <<name, value>>)
        /\ ext' = IF kind = "async" THEN async_add_header(ext, name, value)
                  ELSE add_header(ext, name, value)
        /\ UNCHANGED <<kind, nExtract, runVars, robotsVars, batchVars>>

SetHeaders ==
    \E headers \in HeaderDicts :
        /\ Call("set_headers", <<headers>>)
        /\ ext' = IF kind = "async" THEN async_set_headers(ext, headers)
                  ELSE set_headers(ext, headers)
        /\ UNCHANGED <<kind, nExtract, runVars, robotsVars, batchVars>>

EngineOutcomes == {"ok", "EngineError"}

\* WebExtractor.run: validate, then the blocking call self._extractor.run().
\* A failure raised inside the scoped block unwinds it unless the body catches it.
Run ==
    /\ kind = "sync"
    /\ Call("run", <<>>)
    /\ invokedCfg' = ext.native
    /\ IF ~validate(ext)
       THEN /\ outcome' = "ConfigurationError"
            /\ UNCHANGED <<usedCfg, runCalls>>
       ELSE /\ \E r \in EngineOutcomes : outcome' = r
            /\ usedCfg' = ext.native
            /\ runCalls' = runCalls + 1
    /\ \E caught \in BOOLEAN :
           excPending' = (scope = "inside" /\ outcome' # "ok" /\ ~caught)
    /\ UNCHANGED <<kind, ext, nExtract, runPc, cacheVars, scope, exitClears, propagated, batchVars>>

\* AsyncWebExtractor.run up to its await: validate, then
\* loop.run_in_executor(None, self._extractor.run)
RunInvoke ==
    /\ kind = "async"
    /\ runPc = "idle"
    /\ Call("run", <<>>)
    /\ invokedCfg' = ext.native
    /\ IF ~async_validate(ext)
       THEN outcome' = "ConfigurationError" /\ runPc' = "idle"
       ELSE outcome' = "pending" /\ runPc' = "submitted"
    /\ UNCHANGED <<kind, ext, nExtract, usedCfg, runCalls, robotsVars, batchVars>>

\* a pool thread starts the bound method self._extractor.run: the handle is read now
EngineStart ==
    /\ runPc = "submitted"
    /\ runPc' = "running"
    /\ usedCfg' = ext.native
    /\ runCalls' = runCalls + 1
    /\ UNCHANGED <<kind, ext, nExtract, lastCall, callsLeft, invokedCfg, outcome, robotsVars, batchVars>>

\* the pool thread's call returns or raises; the awaiting run resumes
EngineReturn ==
    /\ runPc = "running"
    /\ runPc' = "idle"
    /\ \E r \in EngineOutcomes : outcome' = r
    /\ UNCHANGED <<kind, ext, nExtract, lastCall, callsLeft, invokedCfg, usedCfg, runCalls, robotsVars, batchVars>>

(***************************************************************************)
(* Robots calls (WebExtractor only) and the scoped block                   *)
(***************************************************************************)
EnableRobotsCheck ==
    /\ kind = "sync"
    /\ Call("enable_robots_check", <<>>)
    /\ robots' = native_enable_robots_check(robots)
    /\ UNCHANGED <<kind, ext, nExtract, runVars, now, fetches, lastSource, scopeVars, batchVars>>

EnableRobotsCheckWithRedis ==
    /\ kind = "sync"
    /\ Call("enable_robots_check_with_redis", <<>>)
    /\ robots' = native_enable_robots_check_with_redis(robots)
    /\ UNCHANGED <<kind, ext, nExtract, runVars, now, fetches, lastSource, scopeVars, batchVars>>

SetRobotsRedisTtl ==
    /\ kind = "sync"
    /\ \E ttl_secs \in TtlInputs :
        /\ Call("set_robots_redis_ttl", <<ttl_secs>>)
        /\ robots' = native_set_robots_redis_ttl(robots, ttl_secs)
    /\ UNCHANGED <<kind, ext, nExtract, runVars, now, fetches, lastSource, scopeVars, batchVars>>

SetRobotsTxt ==
    /\ kind = "sync"
    /\ Call("set_robots_txt", <<>>)
    /\ \E toShared \in BOOLEAN : robots' = native_set_robots_txt(robots, now, toShared)
    /\ UNCHANGED <<kind, ext, nExtract, runVars, now, fetches, lastSource, scopeVars, batchVars>>

CheckRobotsAllowed ==
    /\ kind = "sync"
    /\ Call("check_robots_allowed", <<>>)
    /\ \E fetchOk \in BOOLEAN, readThrough \in BOOLEAN :
        LET res == native_check_robots_allowed(robots, now, fetchOk, readThrough) IN
        /\ robots' = res.robots
        /\ lastSource' = [tier |-> res.source, expired |-> res.expired]
        /\ fetches' = fetches + res.fetched
    /\ UNCHANGED <<kind, ext, nExtract, runVars, now, scopeVars, batchVars>>

RemoveRobotsFromRedis ==
    /\ kind = "sync"
    /\ Call("remove_robots_from_redis", <<>>)
    /\ robots' = native_remove_robots_from_redis(robots)
    /\ UNCHANGED <<kind, ext, nExtract, runVars, now, fetches, lastSource, scopeVars, batchVars>>

ClearRobotsCache ==
    /\ kind = "sync"
    /\ Call("clear_robots_cache", <<>>)
    /\ robots' = native_clear_robots_cache(robots)
    /\ UNCHANGED <<kind, ext, nExtract, runVars, now, fetches, lastSource, scopeVars, batchVars>>

\* time passes
Tick ==
    /\ now < MaxTime
    /\ now' = now + 1
    /\ UNCHANGED <<reqVars, robots, fetches, lastSource, scopeVars, batchVars>>

\* __enter__: return self
Enter ==
    /\ kind = "sync"
    /\ scope = "none"
    /\ scope' = "inside"
    /\ UNCHANGED <<reqVars, cacheVars, excPending, exitClears, propagated, batchVars>>

\* any other exception raised by the body of the block
BodyRaise ==
    /\ scope = "inside"
    /\ ~excPending
    /\ excPending' = TRUE
    /\ UNCHANGED <<reqVars, cacheVars, scope, exitClears, propagated, batchVars>>

\* the block is left, normally or by the unwinding exception: __exit__ runs
Exit ==
    /\ scope = "inside"
    /\ LET x == context_exit(robots, excPending) IN
        /\ robots' = x.robots
        /\ exitClears' = exitClears + x.clears
        /\ propagated' = (excPending /\ ~x.suppress)
    /\ scope' = "exited"
    /\ UNCHANGED <<reqVars, now, fetches, lastSource, excPending, batchVars>>

InitRequest ==
    /\ kind \in {"sync", "async"}
    /\ InitRequestVars(MaxCalls)
    /\ InitRobotsVars
    /\ NoBatch

NextRequest ==
    \/ ExtractText \/ ExtractLinks \/ ExtractMeta
    \/ SetTimeout \/ SetUserAgent \/ SetRandomUserAgent \/ AddHeader \/ SetHeaders
    \/ Run \/ RunInvoke \/ EngineStart \/ EngineReturn
    \/ EnableRobotsCheck \/ EnableRobotsCheckWithRedis \/ SetRobotsRedisTtl
    \/ SetRobotsTxt \/ CheckRobotsAllowed \/ RemoveRobotsFromRedis \/ ClearRobotsCache

SpecRequest == InitRequest /\ [][NextRequest]_vars

InitScope ==
    /\ kind = "sync"
    /\ InitRequestVars(MaxScopeCalls)
    /\ InitRobotsVars
    /\ NoBatch

NextScope ==
    \/ Enter \/ BodyRaise \/ Exit \/ Tick
    \/ ExtractText \/ Run
    \/ EnableRobotsCheck \/ EnableRobotsCheckWithRedis \/ SetRobotsRedisTtl
    \/ SetRobotsTxt \/ CheckRobotsAllowed \/ RemoveRobotsFromRedis \/ ClearRobotsCache

SpecScope == InitScope /\ [][NextScope]_vars

\* one request of either class through its whole life: every public call, and for a
\* WebExtractor built by `with WebExtractor(url) as extractor:` the scoped block as well
InitLifecycle ==
    /\ kind \in {"sync", "async"}
    /\ InitRequestVars(MaxCalls)
    /\ robots = NewRobots
    /\ now = 0
    /\ fetches = 0
    /\ lastSource = [tier |-> "none", expired |-> FALSE]
    /\ scope \in IF kind = "sync" THEN {"none", "inside"} ELSE {"none"}
    /\ excPending = FALSE
    /\ exitClears = 0
    /\ propagated = FALSE
    /\ NoBatch

NextLifecycle ==
    \/ ExtractText \/ ExtractLinks \/ ExtractMeta
    \/ SetTimeout \/ SetUserAgent \/ SetRandomUserAgent \/ AddHeader \/ SetHeaders
    \/ Run \/ RunInvoke \/ EngineStart \/ EngineReturn
    \/ EnableRobotsCheck \/ EnableRobotsCheckWithRedis \/ SetRobotsRedisTtl
    \/ SetRobotsTxt \/ CheckRobotsAllowed \/ RemoveRobotsFromRedis \/ ClearRobotsCache
    \/ BodyRaise \/ Exit

SpecLifecycle == InitLifecycle /\ [][NextLifecycle]_vars

(***************************************************************************)
(* batch_extract                                                           *)
(***************************************************************************)
BatchDefaults ==
    [extract_text |-> FALSE, language_detection |-> FALSE,
     extract_links_internal |-> FALSE, extract_links_external |-> FALSE,
     extract_links_all |-> FALSE,
     extract_socials_all |-> TRUE, extract_video_all |-> TRUE,
     extract_product_all |-> TRUE, extract_article_all |-> TRUE]

NoActivities ==
    [BatchDefaults EXCEPT !.extract_socials_all = FALSE, !.extract_video_all = FALSE,
                          !.extract_product_all = FALSE, !.extract_article_all = FALSE]

BatchOptionInputs ==
    { BatchDefaults,
      NoActivities,
      [NoActivities EXCEPT !.extract_text = TRUE, !.extract_links_internal = TRUE],
      [BatchDefaults EXCEPT !.extract_links_internal = TRUE, !.extract_links_external = TRUE] }

\* what happens to a target's task: the Engine call succeeds, the Engine call fails,
\* or building / configuring the task's extractor raises
Fates == {"ok", "EngineError", "raise"}

batch_configure_links_always(o) ==
    LET e0 == NewExtractor
        e1 == IF o.extract_text THEN async_extract_text(e0, o.language_detection) ELSE e0
        e2 == async_extract_links(e1, o.extract_links_internal, o.extract_links_external,
                                  o.extract_links_all)
        e3 == IF o.extract_socials_all THEN async_extract_meta(e2, "extract_socials", None) ELSE e2
        e4 == IF o.extract_video_all   THEN async_extract_meta(e3, "extract_video", None)   ELSE e3
        e5 == IF o.extract_product_all THEN async_extract_meta(e4, "extract_product", None) ELSE e4
        e6 == IF o.extract_article_all THEN async_extract_meta(e5, "extract_article", None) ELSE e5
    IN  e6

\* extract_one, from the construction of the extractor to the last extract_* call
batch_configure(o) ==
    LET e0 == NewExtractor
        e1 == IF o.extract_text THEN async_extract_text(e0, o.language_detection) ELSE e0
        e2 == IF o.extract_links_internal \/ o.extract_links_external \/ o.extract_links_all
              THEN async_extract_links(e1, o.extract_links_internal, o.extract_links_external,
                                 o.extract_links_all)
              ELSE e1
        e3 == IF o.extract_socials_all THEN async_extract_meta(e2, "extract_socials", None) ELSE e2
        e4 == IF o.extract_video_all   THEN async_extract_meta(e3, "extract_video", None)   ELSE e3
        e5 == IF o.extract_product_all THEN async_extract_meta(e4, "extract_product", None) ELSE e4
        e6 == IF o.extract_article_all THEN async_extract_meta(e5, "extract_article", None) ELSE e5
    IN  e6

can_acquire_unlimited(p) == TRUE

\* asyncio.Semaphore: acquire goes through only while the value is positive
can_acquire(p) == p > 0

release_unless_failed(p, failed) == IF failed THEN p ELSE p + 1

\* leaving `async with semaphore`: the permit goes back, whether the body returned
\* or raised
release(p, failed) == p + 1

Pending     == [kind |-> "pending", url |-> 0]
Result(i)   == [kind |-> "result", url |-> i]
NoneAt(i)   == [kind |-> "None", url |-> i]
RaisedAt(i) == [kind |-> "exception", url |-> i]

\* a task ends: its slot is filled and it is appended to the completion order
Finish(i, value) ==
    /\ tpc' = [tpc EXCEPT ![i] = "done"]
    /\ slot' = [slot EXCEPT ![i] = value]
    /\ completed' = Append(completed, i)

\* extract_one from `async with semaphore` to the await inside extractor.run():
\* one uninterrupted step of the event loop
Admit(i) ==
    /\ batchPc = "gathering"
    /\ tpc[i] = "waiting"
    /\ can_acquire(permits)
    /\ IF fate[i] = "raise"
       THEN \* the exception leaves `async with`, which releases the permit
            /\ Finish(i, RaisedAt(i))
            /\ permits' = release(permits - 1, TRUE)
            /\ UNCHANGED text
       ELSE LET e == batch_configure(opts) IN
            /\ text' = [text EXCEPT ![i] = e]
            /\ IF ~async_validate(e)
               THEN \* RuntimeError caught by `except Exception`: return None
                    /\ Finish(i, NoneAt(i))
                    /\ permits' = release(permits - 1, TRUE)
               ELSE /\ tpc' = [tpc EXCEPT ![i] = "submitted"]
                    /\ permits' = permits - 1
                    /\ UNCHANGED <<slot, completed>>
    /\ UNCHANGED <<reqVars, robotsVars, opts, maxc, fate, engineRuns, engineOut, batchPc, returned>>

\* a pool thread executes self._extractor.run for the task
EngineRun(i) ==
    /\ tpc[i] = "submitted"
    /\ tpc' = [tpc EXCEPT ![i] = "engineDone"]
    /\ engineRuns' = [engineRuns EXCEPT ![i] = @ + 1]
    /\ engineOut' = [engineOut EXCEPT ![i] = fate[i]]
    /\ UNCHANGED <<reqVars, robotsVars, opts, maxc, fate, permits, text, slot, completed, batchPc, returned>>

\* the task resumes after its await: wrap the result or catch the error, leave
\* `async with` (release), return
Resume(i) ==
    /\ tpc[i] = "engineDone"
    /\ Finish(i, IF engineOut[i] = "ok" THEN Result(i) ELSE NoneAt(i))
    /\ permits' = release(permits, engineOut[i] # "ok")
    /\ UNCHANGED <<reqVars, robotsVars, opts, maxc, fate, text, engineRuns, engineOut, batchPc, returned>>

gather_first_exception(slots) ==
    LET failed == \E i \in DOMAIN slots : slots[i].kind = "exception" IN
    [ready   |-> failed \/ \A i \in DOMAIN slots : slots[i].kind # "pending",
     raised  |-> failed,
     results |-> slots]

\* asyncio.gather(*tasks, return_exceptions=True): waits for every task, hands back
\* their results and exceptions in the order of the tasks
gather(slots) ==
    [ready   |-> \A i \in DOMAIN slots : slots[i].kind # "pending",
     raised  |-> FALSE,
     results |-> slots]

Retained(r) == r.kind # "None" /\ r.kind # "exception"

keep_in_completion_order(results) ==
    SelectSeq([k \in 1..Len(completed) |-> results[completed[k]]], Retained)

\* [r for r in results if r is not None and not isinstance(r, Exception)]
keep(results) == SelectSeq(results, Retained)

\* `results = await asyncio.gather(...)` completes and the filtered list is returned
BatchReturn ==
    /\ batchPc = "gathering"
    /\ LET g == gather(slot) IN
        /\ g.ready
        /\ IF g.raised
           THEN batchPc' = "raised" /\ UNCHANGED returned
           ELSE batchPc' = "returned" /\ returned' = keep(g.results)
    /\ UNCHANGED <<reqVars, robotsVars, opts, maxc, fate, permits, tpc, text, engineRuns,
                   engineOut, slot, completed>>

InitBatch ==
    /\ kind = "async"
    /\ InitRequestVars(0)
    /\ InitRobotsVars
    /\ opts \in BatchOptionInputs
    /\ maxc \in 0..MaxConcurrent
    /\ fate \in UNION { [1..n -> Fates] : n \in 0..MaxTargets }
    /\ permits = maxc
    /\ tpc = [i \in DOMAIN fate |-> "waiting"]
    /\ text = [i \in DOMAIN fate |-> NewExtractor]
    /\ engineRuns = [i \in DOMAIN fate |-> 0]
    /\ engineOut = [i \in DOMAIN fate |-> "none"]
    /\ slot = [i \in DOMAIN fate |-> Pending]
    /\ completed = <<>>
    /\ batchPc = "gathering"
    /\ returned = <<>>

NextBatch ==
    \/ \E i \in DOMAIN fate : Admit(i)
    \/ \E i \in DOMAIN fate : EngineRun(i)
    \/ \E i \in DOMAIN fate : Resume(i)
    \/ BatchReturn

SpecBatch == InitBatch /\ [][NextBatch]_vars

\* every combination of the three link options, with and without text and metadata
LinkOptionInputs ==
    { [extract_text |-> t, language_detection |-> FALSE,
       extract_links_internal |-> i, extract_links_external |-> x, extract_links_all |-> l,
       extract_socials_all |-> m, extract_video_all |-> m,
       extract_product_all |-> m, extract_article_all |-> m] :
      t \in BOOLEAN, i \in BOOLEAN, x \in BOOLEAN, l \in BOOLEAN, m \in BOOLEAN }

\* batch_extract([url], ..., max_concurrent=1) over the link options
InitBatchOptions ==
    /\ kind = "async"
    /\ InitRequestVars(0)
    /\ InitRobotsVars
    /\ opts \in LinkOptionInputs
    /\ maxc = 1
    /\ fate \in [{1} -> Fates]
    /\ permits = maxc
    /\ tpc = [i \in DOMAIN fate |-> "waiting"]
    /\ text = [i \in DOMAIN fate |-> NewExtractor]
    /\ engineRuns = [i \in DOMAIN fate |-> 0]
    /\ engineOut = [i \in DOMAIN fate |-> "none"]
    /\ slot = [i \in DOMAIN fate |-> Pending]
    /\ completed = <<>>
    /\ batchPc = "gathering"
    /\ returned = <<>>

SpecBatchOptions == InitBatchOptions /\ [][NextBatch]_vars

\* the event loop runs every task that is ready, and every Engine call the pool has
\* been handed returns or fails
BatchFairness ==
    /\ WF_vars(\E i \in DOMAIN fate : Admit(i))
    /\ WF_vars(\E i \in DOMAIN fate : EngineRun(i))
    /\ WF_vars(\E i \in DOMAIN fate : Resume(i))
    /\ WF_vars(BatchReturn)

SpecBatchFair == InitBatch /\ [][NextBatch]_vars /\ BatchFairness

(***************************************************************************)
(* Properties                                                              *)
(***************************************************************************)

\* C1: while no extract_* call has been made on the request, the Engine's run is never
\* invoked, no run is left in flight, and a run that was just called ended with the
\* configuration error -- whatever non-activity calls were made before.
C1_RunWithoutActivityFails ==
    nExtract = 0 =>
        /\ runCalls = 0
        /\ runPc = "idle"
        /\ lastCall.op = "run" => outcome = "ConfigurationError"

C1_Witness ==
    /\ kind = "async"
    /\ nExtract = 0
    /\ ext.native.set_timeout.on
    /\ lastCall.op = "run"
    /\ outcome = "ConfigurationError"

C2_Table(internal, external, all) ==
    CASE <<internal, external, all>> = <<FALSE, FALSE, FALSE>> -> "all"
      [] <<internal, external, all>> = <<TRUE,  FALSE, FALSE>> -> "internal"
      [] <<internal, external, all>> = <<FALSE, TRUE,  FALSE>> -> "external"
      [] <<internal, external, all>> = <<TRUE,  TRUE,  FALSE>> -> "all"
      [] <<internal, external, all>> = <<FALSE, FALSE, TRUE>>  -> "all"
      [] <<internal, external, all>> = <<TRUE,  FALSE, TRUE>>  -> "all"
      [] <<internal, external, all>> = <<FALSE, TRUE,  TRUE>>  -> "all"
      [] <<internal, external, all>> = <<TRUE,  TRUE,  TRUE>>  -> "all"

\* C2: right after extract_links(internal, external, all) the native handle has received
\* exactly one filter, the one the precedence table gives for the three flags.
C2_LinkFilterPrecedence ==
    lastCall.op = "extract_links" =>
        /\ ext.native.extract_links.on
        /\ ext.native.extract_links.arg =
               << << C2_Table(lastCall.arg[1], lastCall.arg[2], lastCall.arg[3]) >> >>

C2_Witness ==
    /\ lastCall.op = "extract_links"
    /\ lastCall.arg = <<TRUE, TRUE, FALSE>>
    /\ ext.native.extract_links.arg = << <<"all">> >>

\* C7: a metadata call that omits the selector issues exactly one warning and hands
\* ["all"] to the native handle; a call with an explicit selector issues none and hands
\* the selector over verbatim; either way the activity flag is set and nothing else
\* of the request changes (so omitted and explicit ["all"] differ in the warning only).
C7_MetaStep(call) == lastCall'.op = call /\ callsLeft' = callsLeft - 1

C7_FieldOmissionDiagnostic ==
    [][ \A call \in MetaCalls :
          C7_MetaStep(call) =>
              LET f == lastCall'.arg IN
              ext' = [activities_set |-> TRUE,
                      native |-> [ext.native EXCEPT
                                     ![call] = On(<< IF f.given THEN f.fields ELSE <<"all">> >>)],
                      warned |-> ext.warned + (IF f.given THEN 0 ELSE 1)] ]_vars

C7_Witness ==
    /\ lastCall.op = "extract_video"
    /\ ~lastCall.arg.given
    /\ ext.warned = 1
    /\ ext.native.extract_video = On(<< <<"all">> >>)
    /\ ext.native.extract_article = On(<< <<"all">> >>)

\* C10 (as claimed): the configuration the Engine's run reads is the configuration the
\* request had at the instant run was invoked.
C10_EngineUsesInvocationConfig ==
    (runPc = "running" \/ (runPc = "idle" /\ outcome \in EngineOutcomes)) =>
        usedCfg = invokedCfg

\* tasks that hold a semaphore permit and have not finished
InFlight == { i \in DOMAIN tpc : tpc[i] \in {"submitted", "engineDone"} }

\* C3: with max_concurrent >= 1, at most max_concurrent tasks are in flight, and the
\* semaphore accounts for each of them.
C3_AtMostCInFlight ==
    (batchPc # "none" /\ maxc >= 1) =>
        /\ Cardinality(InFlight) <= maxc
        /\ permits = maxc - Cardinality(InFlight)

C3_Witness ==
    /\ maxc = 2
    /\ Cardinality(InFlight) = 2
    /\ permits = 0
    /\ \E i \in DOMAIN tpc : tpc[i] = "waiting"

\* the batch options enable no activity, so every run fails validation
C4_NoActivityRequested ==
    ~(\/ opts.extract_text
      \/ opts.extract_links_internal \/ opts.extract_links_external \/ opts.extract_links_all
      \/ opts.extract_socials_all \/ opts.extract_video_all
      \/ opts.extract_product_all \/ opts.extract_article_all)

\* the failing subset F
C4_Failing == { i \in DOMAIN fate : fate[i] # "ok" \/ C4_NoActivityRequested }

\* C4: no exception leaves the batch call; a finished task's slot is decided by its own
\* target alone; the returned list holds one result per non-failing target and nothing
\* for a failing one, N - |F| entries in all, each non-failing target's Engine having
\* run once.
C4_FailureIsolation ==
    batchPc # "none" =>
        /\ batchPc # "raised"
        /\ \A i \in DOMAIN fate :
              tpc[i] = "done" => (slot[i].kind = "result" <=> i \notin C4_Failing)
        /\ batchPc = "returned" =>
              /\ \A i \in DOMAIN fate : tpc[i] = "done"
              /\ Len(returned) = Len(fate) - Cardinality(C4_Failing)
              /\ \A k \in 1..Len(returned) : returned[k].kind = "result"
              /\ { returned[k].url : k \in 1..Len(returned) } = DOMAIN fate \ C4_Failing
              /\ \A i \in DOMAIN fate \ C4_Failing : engineRuns[i] = 1

C4_Witness ==
    /\ batchPc = "returned"
    /\ Len(fate) = 3
    /\ fate[1] = "raise" /\ fate[2] = "ok" /\ fate[3] = "EngineError"
    /\ returned = << Result(2) >>

\* position of a task in the completion order
DoneAt(i) == CHOOSE k \in 1..Len(completed) : completed[k] = i

\* position of a target's result in the returned list
PosOf(i) == CHOOSE k \in 1..Len(returned) : returned[k].url = i

RetainedTargets == { returned[k].url : k \in 1..Len(returned) }

\* C5: the returned results are in the relative order of their URLs in the input.
C5_InputOrder ==
    batchPc = "returned" =>
        \A p, q \in 1..Len(returned) : p < q => returned[p].url < returned[q].url

C5_Witness ==
    /\ batchPc = "returned"
    /\ Len(fate) = 3
    /\ fate[2] = "EngineError"
    /\ completed = <<3, 2, 1>>
    /\ returned = << Result(1), Result(3) >>

\* C6 (as claimed): if A completes before B and both are retained, A's result precedes
\* B's in the returned list.
C6_CompletionOrder ==
    batchPc = "returned" =>
        \A a, b \in RetainedTargets :
            DoneAt(a) < DoneAt(b) => PosOf(a) < PosOf(b)

\* C6 (amended): if A completes before B and both are retained, A's result precedes
\* B's exactly when A's URL precedes B's in the input.
C6_CompletionOrderOnlyWhereInputOrder ==
    batchPc = "returned" =>
        \A a, b \in RetainedTargets :
            DoneAt(a) < DoneAt(b) => (PosOf(a) < PosOf(b) <=> a < b)

C6_Witness ==
    /\ batchPc = "returned"
    /\ completed = <<2, 3, 1>>
    /\ returned = << Result(1), Result(2), Result(3) >>

\* C8: leaving the scoped block calls clear_robots_cache exactly once, whether or not
\* an exception is unwinding, leaves the local tier empty and lets the exception
\* through; a check made while the local tier is still empty after the exit is not
\* answered by the local tier.
C8_CheckStep == lastCall'.op = "check_robots_allowed" /\ callsLeft' = callsLeft - 1

C8_ScopeExitClears ==
    /\ [][ (scope = "inside" /\ scope' = "exited") =>
              /\ exitClears' = exitClears + 1
              /\ robots'.local = "empty"
              /\ propagated' = excPending ]_vars
    /\ [](exitClears = IF scope = "exited" THEN 1 ELSE 0)
    /\ [][ (scope = "exited" /\ robots.local = "empty" /\ C8_CheckStep) =>
              lastSource'.tier \in {"shared", "fetch", "fetchFailed"} ]_vars

C8_Witness ==
    /\ scope = "exited"
    /\ outcome = "EngineError"
    /\ propagated
    /\ exitClears = 1
    /\ robots.mode = "local"
    /\ lastCall.op = "check_robots_allowed"
    /\ lastSource.tier = "fetch"
    /\ fetches = 2

\* C9: with the shared tier enabled and an entry cached for the domain, a check made
\* while the entry is younger than its TTL makes no live fetch and is answered by the
\* local or the shared tier; a check that reaches the shared tier once the entry's age
\* has reached the TTL makes exactly one live fetch, which, when it obtains rules,
\* fills the local tier and rewrites the shared entry.
C9_CheckStep == lastCall'.op = "check_robots_allowed" /\ callsLeft' = callsLeft - 1

C9_SharedTtl ==
    [][ (C9_CheckStep /\ robots.mode = "shared" /\ robots.shared.present) =>
          /\ now - robots.shared.at < robots.shared.ttl =>
                /\ fetches' = fetches
                /\ lastSource'.tier \in {"local", "shared"}
          /\ (now - robots.shared.at >= robots.shared.ttl /\ robots.local = "empty") =>
                /\ fetches' = fetches + 1
                /\ lastSource'.expired
                /\ lastSource'.tier = "fetch" =>
                      /\ robots'.local = "fetched"
                      /\ robots'.shared = Entry(now, robots.ttl) ]_vars

C9_Witness ==
    /\ robots.mode = "shared"
    /\ lastCall.op = "check_robots_allowed"
    /\ lastSource = [tier |-> "fetch", expired |-> TRUE]
    /\ fetches = 2
    /\ robots.local = "fetched"
    /\ robots.shared = Entry(now, robots.ttl)

\* C11: once an extract_* call has returned, the request never counts as having no
\* activity again, whatever is called afterwards (extract_*, HTTP options, robots calls,
\* leaving the scoped block, run succeeding or failing); so every later run passes
\* validation and invokes the Engine: at once for a WebExtractor, through the offloaded
\* call for an AsyncWebExtractor.
C11_RunStep == lastCall'.op = "run" /\ callsLeft' = callsLeft - 1

C11_ActivityMonotonic ==
    /\ [](nExtract > 0 => ext.activities_set)
    /\ [][ ext.activities_set => ext'.activities_set ]_vars
    /\ [][ (C11_RunStep /\ nExtract > 0) =>
              /\ outcome' # "ConfigurationError"
              /\ kind = "sync"  => runCalls' = runCalls + 1
              /\ kind = "async" => runPc' = "submitted" ]_vars
    /\ [][ (runPc = "submitted" /\ runPc' # "submitted") => runCalls' = runCalls + 1 ]_vars

C11_Witness ==
    /\ kind = "sync"
    /\ scope = "exited"
    /\ propagated
    /\ lastCall.op = "run"
    /\ runCalls = 2

\* C12: with max_concurrent >= 1 the batch call eventually returns, and it returns
\* only after every target has been admitted and has finished; once every task has
\* finished all permits are back, and while a target waits and fewer than
\* max_concurrent tasks are in flight an admission is possible.
C12_BatchTerminates ==
    /\ (batchPc = "gathering" /\ maxc >= 1) ~> (batchPc = "returned")
    /\ [](batchPc = "returned" => \A i \in DOMAIN tpc : tpc[i] = "done")
    /\ []((batchPc # "none" /\ \A i \in DOMAIN tpc : tpc[i] = "done") => permits = maxc)
    /\ []((/\ batchPc = "gathering"
           /\ maxc >= 1
           /\ Cardinality(InFlight) < maxc
           /\ \E i \in DOMAIN tpc : tpc[i] = "waiting")
          => ENABLED (\E i \in DOMAIN fate : Admit(i)))

C12_Witness ==
    /\ batchPc = "returned"
    /\ maxc = 1
    /\ Len(fate) = 3
    /\ fate[1] = "raise" /\ fate[2] = "EngineError" /\ fate[3] = "ok"
    /\ permits = 1
    /\ returned = << Result(3) >>

\* the tasks whose extractor has been built and configured
C13_Configured == { i \in DOMAIN text : tpc[i] # "waiting" /\ fate[i] # "raise" }

\* what a single request's extract_links(internal, external, all) leaves on the handle
C13_SingleRequestLinks ==
    extract_links(NewExtractor, opts.extract_links_internal, opts.extract_links_external,
                  opts.extract_links_all).native.extract_links

C13_AnyLinkOption ==
    opts.extract_links_internal \/ opts.extract_links_external \/ opts.extract_links_all

\* C13 (as claimed): for every combination of the three link options, the all-false
\* one included, a configured task's links activity and filter are those of a single
\* request's extract_links with the same flags.
C13_SameLinksAsSingleRequest ==
    \A i \in C13_Configured : text[i].native.extract_links = C13_SingleRequestLinks

\* C13 (amended): they are the same whenever at least one of the three options is
\* true; with all three false the task makes no extract_links call, so the links
\* activity stays off.
C13_SameLinksWhenRequested ==
    \A i \in C13_Configured :
        /\ C13_AnyLinkOption =>
              /\ text[i].native.extract_links = C13_SingleRequestLinks
              /\ text[i].activities_set
        /\ ~C13_AnyLinkOption => text[i].native.extract_links = Off

C13_Witness ==
    /\ ~C13_AnyLinkOption
    /\ opts.extract_text
    /\ 1 \in C13_Configured
    /\ text[1].native.extract_links = Off
    /\ text[1].native.extract_text.on
    /\ batchPc = "returned"
    /\ returned = << Result(1) >>

\* C14: the value set_timeout hands to the native handle is an integer number of
\* seconds that is never negative, whatever number the caller passed (fractional and
\* negative inputs included).
C14_TimeoutNonNegative ==
    ext.native.set_timeout.on => ext.native.set_timeout.arg[1] >= 0

\* every configuration call the two classes share, applied to the same object with
\* the same arguments, leaves the same native calls and the same activity flag
C15_SameCalls ==
    /\ \A ld \in BOOLEAN : async_extract_text(ext, ld) = extract_text(ext, ld)
    /\ \A internal \in BOOLEAN, external \in BOOLEAN, all \in BOOLEAN :
           async_extract_links(ext, internal, external, all)
               = extract_links(ext, internal, external, all)
    /\ \A call \in MetaCalls, fields \in FieldInputs :
           async_extract_meta(ext, call, fields) = extract_meta(ext, call, fields)
    /\ \A t \in TimeoutInputs : async_set_timeout(ext, t) = set_timeout(ext, t)
    /\ \A ua \in UserAgents : async_set_user_agent(ext, ua) = set_user_agent(ext, ua)
    /\ \A en \in BOOLEAN : async_set_random_user_agent(ext, en) = set_random_user_agent(ext, en)
    /\ \A n \in HeaderNames, v \in HeaderValues : async_add_header(ext, n, v) = add_header(ext, n, v)
    /\ \A h \in HeaderDicts : async_set_headers(ext, h) = set_headers(ext, h)

\* C15: after any sequence of the shared configuration calls, WebExtractor and
\* AsyncWebExtractor make the same native configuration call with the same arguments
\* for each next call, run validates to the same outcome in both, and each run that
\* passes validation invokes the native run exactly once (at once in the synchronous
\* class, when the pool thread starts in the asynchronous one); a run that fails
\* validation invokes it not at all.
C15_AsyncIsSameCall ==
    /\ [](C15_SameCalls /\ async_validate(ext) = validate(ext))
    /\ [][ C11_RunStep =>
              IF validate(ext)
              THEN /\ kind = "sync"  => runCalls' = runCalls + 1
                   /\ kind = "async" => (runPc' = "submitted" /\ runCalls' = runCalls)
              ELSE /\ outcome' = "ConfigurationError"
                   /\ runCalls' = runCalls /\ runPc' = runPc ]_vars
    /\ [][ runPc = "submitted" =>
              \/ runPc' = "submitted" /\ runCalls' = runCalls
              \/ runPc' = "running" /\ runCalls' = runCalls + 1 ]_vars
    /\ [][ (runCalls' # runCalls) =>
              \/ C11_RunStep /\ kind = "sync"
              \/ kind = "async" /\ runPc = "submitted" ]_vars

C15_Witness ==
    /\ kind = "async"
    /\ lastCall.op = "run"
    /\ ext.native.extract_links = On(<< <<"all">> >>)
    /\ ext.native.set_timeout = On(<< 2 >>)
    /\ usedCfg = ext.native
    /\ runCalls = 1
    /\ outcome = "ok"

\* C16: with every activity option false, each task whose extractor was built fails
\* run's validation, the error is turned into None inside the task, the native run
\* is invoked for no target, and the batch does not raise and returns the empty list.
C16_NoActivityBatchIsEmpty ==
    opts = NoActivities =>
        /\ \A i \in DOMAIN fate :
              /\ engineRuns[i] = 0
              /\ tpc[i] \in {"waiting", "done"}
              /\ (tpc[i] = "done" /\ fate[i] # "raise") =>
                     (~async_validate(text[i]) /\ slot[i] = NoneAt(i))
        /\ batchPc # "raised"
        /\ batchPc = "returned" => returned = <<>>

C16_Witness ==
    /\ opts = NoActivities
    /\ Len(fate) = 3
    /\ \A i \in DOMAIN fate : fate[i] = "ok" /\ slot[i] = NoneAt(i) /\ engineRuns[i] = 0
    /\ batchPc = "returned"
    /\ returned = <<>>

\* C17: with max_concurrent = 0 and at least one target the semaphore starts at zero,
\* no task ever gets past `async with semaphore`, the native run is never invoked,
\* and gather never completes: every task waits and no step is possible.
C17_ZeroPermitsDeadlock ==
    (maxc = 0 /\ Len(fate) >= 1) =>
        /\ permits = 0
        /\ \A i \in DOMAIN fate :
              tpc[i] = "waiting" /\ engineRuns[i] = 0 /\ slot[i] = Pending
        /\ batchPc = "gathering"
        /\ ~ENABLED NextBatch

C17_Witness ==
    /\ maxc = 0
    /\ Len(fate) = 3
    /\ permits = 0
    /\ \A i \in DOMAIN fate : tpc[i] = "waiting"
    /\ ~gather(slot).ready
    /\ ~ENABLED NextBatch

====
